---- MODULE Spec2Model ----
(***************************************************************************)
(* A model of bloom-rs: the bit-packed ValueVec (valuevec.rs), the probe   *)
(* generator HashIter (hashing.rs), BloomFilter (bloom.rs) and             *)
(* CountingBloomFilter (counting.rs).                                      *)
(*                                                                         *)
(* Machine integers keep their width.  TLC's integers stop at 2^31-1, so   *)
(* a u32 is modelled as the set of its set bit positions (a subset of      *)
(* 0..31, bit 0 the least significant) and a u64 as eight base-256 limbs.  *)
(***************************************************************************)
EXTENDS Integers, Sequences, FiniteSets, TLC

VARIABLES
  vv,           \* ValueVec spec: the vector
  vvOp,         \* ValueVec spec: the last call, its arguments and its result
  vvPanicked,   \* ValueVec spec: a call panicked
  cbf,          \* counting spec: the CountingBloomFilter
  cbfOp,        \* counting spec: the last call that takes &mut self, its
                \* item and its result (ret if a u32, ok if a bool)
  cbfPanicked,  \* counting spec: a call panicked
  inserted,     \* counting spec: the inserts of Tracked since the last clear
  removed,      \* counting spec: the remove(Tracked) calls since the last clear
  insertedOther,\* counting spec: another item was inserted since then
  removedOther, \* counting spec: remove was called on another item since then
  reinserted,   \* counting spec: Tracked was inserted after a remove(Tracked)
  beforeInsert, \* counting spec: if the last call was an insert, or a remove
                \* that directly followed an insert of the same item (removed
                \* is then true): that item and the counters before the insert
  bf,           \* Bloom spec: the BloomFilter
  bfOp,         \* Bloom spec: the last call that takes &mut self, its
                \* arguments (of other: its bits, whose hashers it has and
                \* the items inserted into it) and its result (of clear,
                \* which returns nothing: whether a bit was set before it)
  bfPanicked,   \* Bloom spec: a call panicked
  bfInserted,   \* Bloom spec: the items inserted since the last clear or
                \* intersect
  hi,           \* HashIter spec: the iterator
  hiOut         \* HashIter spec: what the calls of next returned, in order

vvVars == <<vv, vvOp, vvPanicked>>

cbfVars == <<cbf, cbfOp, cbfPanicked, inserted, removed, insertedOther, removedOther, reinserted, beforeInsert>>

bfVars == <<bf, bfOp, bfPanicked, bfInserted>>

hiVars == <<hi, hiOut>>

vars ==
  <<vv, vvOp, vvPanicked,
    cbf, cbfOp, cbfPanicked, inserted, removed, insertedOther, removedOther, reinserted,
    beforeInsert,
    bf, bfOp, bfPanicked, bfInserted,
    hi, hiOut>>

(***************************************************************************)
(* u32 arithmetic on bit sets                                              *)
(***************************************************************************)

\* the width of a storage block of the BitVec (u32)
WordBits == 32

BitIdx == 0 .. (WordBits - 1)

\* 0u32
U32Zero == {}

\* u32::max_value()
U32Max == BitIdx

\* a & b
band(a, b) == a \cap b

\* a | b
bor(a, b) == a \cup b

\* a ^ b
bxor(a, b) == (a \ b) \cup (b \ a)

\* a << s on u32, for 0 <= s < 32: the bits shifted out at the top are lost
shl(a, s) == {b + s : b \in a} \cap BitIdx

\* a >> s on u32, for 0 <= s < 32
shr(a, s) == {b - s : b \in {x \in a : x >= s}}

\* a < b on u32: the highest bit in which they differ is set in b
u32lt(a, b) == \E i \in b \ a : \A j \in a \ b : j < i

\* a > b on u32
u32gt(a, b) == u32lt(b, a)

\* a + 1 on u32, for a < u32::max_value(): the lowest clear bit is set and
\* the bits below it are cleared
u32inc(a) ==
  LET z == CHOOSE i \in BitIdx \ a : \A j \in BitIdx \ a : i <= j
  IN  (a \ (0 .. (z - 1))) \cup {z}

\* a - 1 on u32, for a > 0: the lowest set bit is cleared and the bits below
\* it are set
u32dec(a) ==
  LET z == CHOOSE i \in a : \A j \in a : i <= j
  IN  (a \ {z}) \cup (0 .. (z - 1))

\* 2u32.pow(n) - 1, for 0 <= n < 32
pow2m1(n) == {b \in BitIdx : b < n}

\* the u32 of a natural number below 2^31
u32(n) == {b \in 0 .. (WordBits - 2) : (n \div (2 ^ b)) % 2 = 1}

\* the natural number of a u32 below 2^31
RECURSIVE natFrom(_, _)
natFrom(a, b) ==
  IF b >= WordBits - 1 THEN 0
  ELSE (IF b \in a THEN 2 ^ b ELSE 0) + natFrom(a, b + 1)

nat(a) == natFrom(a, 0)

(***************************************************************************)
(* ValueVec (valuevec.rs)                                                  *)
(***************************************************************************)

\* ValueVec::new: bits_per_val * count zero bits, held in ceil(bits/32) blocks
ValueVec_new(bits_per_val, count) ==
  LET bits == bits_per_val * count
  IN  [ bits_per_val |-> bits_per_val,
        mask         |-> pow2m1(bits_per_val),
        nbits        |-> bits,
        blocks       |-> [b \in 1 .. ((bits + WordBits - 1) \div WordBits) |-> U32Zero] ]

\* ValueVec::max_value
max_value(self) == self.mask

\* ValueVec::len
ValueVec_len(self) == self.nbits

\* clear that resets the value at index 0 alone
ValueVec_clear_first_value(self) ==
  [self EXCEPT !.blocks = [b \in DOMAIN self.blocks |->
     IF b = 1 THEN shr(shl(self.blocks[b], self.bits_per_val), self.bits_per_val)
     ELSE self.blocks[b]]]

\* ValueVec::clear: BitVec::clear zeroes every block
ValueVec_clear(self) ==
  [self EXCEPT !.blocks = [b \in DOMAIN self.blocks |-> U32Zero]]

\* the mask of set_bits and get_bits, before it is shifted
bits_mask(self, num_bits) ==
  IF num_bits = self.bits_per_val THEN self.mask ELSE pow2m1(num_bits)

\* set_bits with the shift binding to the else branch of the mask alone
set_bits_unshifted_mask(self, idx, val, num_bits) ==
  LET blockidx == idx \div WordBits
      shift    == WordBits - (idx % WordBits) - num_bits
      mask     == IF num_bits = self.bits_per_val
                  THEN self.mask
                  ELSE shl(pow2m1(num_bits), shift)
      block    == self.blocks[blockidx + 1]
      zeroed   == band(bxor(block, mask), block)
  IN  [self EXCEPT !.blocks[blockidx + 1] = bor(zeroed, shl(val, shift))]

\* ValueVec::set_bits: blocks are indexed from 0 in the code, from 1 here
set_bits(self, idx, val, num_bits) ==
  LET blockidx == idx \div WordBits
      shift    == WordBits - (idx % WordBits) - num_bits
      mask     == shl(bits_mask(self, num_bits), shift)
      block    == self.blocks[blockidx + 1]
      zeroed   == band(bxor(block, mask), block)
  IN  [self EXCEPT !.blocks[blockidx + 1] = bor(zeroed, shl(val, shift))]

\* ValueVec::get_bits
get_bits(self, idx, num_bits) ==
  LET shift == WordBits - (idx % WordBits) - num_bits
      mask  == shl(bits_mask(self, num_bits), shift)
      val   == band(self.blocks[(idx \div WordBits) + 1], mask)
  IN  shr(val, shift)

\* set_write splitting the value at rem instead of left
set_write_split_at_rem(self, i, val) ==
  LET idx == i * self.bits_per_val
      rem == WordBits - (idx % WordBits)
  IN  IF rem < self.bits_per_val
      THEN LET left     == self.bits_per_val - rem
               lowerval == shr(val, rem)
               upval    == band(val, pow2m1(left))
           IN  set_bits(set_bits(self, idx, band(lowerval, pow2m1(rem)), rem),
                        idx + rem, upval, left)
      ELSE set_bits(self, idx, val, self.bits_per_val)

\* ValueVec::set after its range check
set_write(self, i, val) ==
  LET idx == i * self.bits_per_val
      rem == WordBits - (idx % WordBits)
  IN  IF rem < self.bits_per_val
      THEN LET left     == self.bits_per_val - rem
               lowerval == shr(val, left)
               upval    == band(val, pow2m1(left))
           IN  set_bits(set_bits(self, idx, lowerval, rem), idx + rem, upval, left)
      ELSE set_bits(self, idx, val, self.bits_per_val)

\* ValueVec::set truncating a value that is too wide instead of panicking
ValueVec_set_truncating(self, i, val) ==
  [vec |-> set_write(self, i, band(val, self.mask)), panic |-> FALSE]

\* ValueVec::set: the new ValueVec, and whether the call panicked
ValueVec_set(self, i, val) ==
  IF u32gt(val, self.mask)
  THEN [vec |-> self, panic |-> TRUE]
  ELSE [vec |-> set_write(self, i, val), panic |-> FALSE]

\* ValueVec::get
ValueVec_get(self, i) ==
  LET idx == i * self.bits_per_val
      rem == WordBits - (idx % WordBits)
  IN  IF rem < self.bits_per_val
      THEN LET lower == get_bits(self, idx, rem)
               left  == self.bits_per_val - rem
               upper == get_bits(self, idx + rem, left)
           IN  bor(shl(lower, left), upper)
      ELSE get_bits(self, idx, self.bits_per_val)

(***************************************************************************)
(* u64 arithmetic on eight base-256 limbs, the least significant first     *)
(***************************************************************************)

Limbs == 8

LimbBase == 256

\* the u64 of a natural number below 2^31
u64(n) ==
  [l \in 1 .. Limbs |-> IF l <= 4 THEN (n \div (LimbBase ^ (l - 1))) % LimbBase ELSE 0]

\* u64::max_value()
U64Max == [l \in 1 .. Limbs |-> LimbBase - 1]

RECURSIVE addFrom(_, _, _, _)
addFrom(a, b, l, carry) ==
  IF l > Limbs THEN << >>
  ELSE LET sum == a[l] + b[l] + carry
       IN  <<sum % LimbBase>> \o addFrom(a, b, l + 1, sum \div LimbBase)

\* a.wrapping_add(b) on u64: the carry out of the top limb is lost
wrapping_add(a, b) == addFrom(a, b, 1, 0)

\* the sum of the limb products a[i] * b[l+1-i], i = from..l
RECURSIVE column(_, _, _, _)
column(a, b, l, from) ==
  IF from > l THEN 0 ELSE a[from] * b[l + 1 - from] + column(a, b, l, from + 1)

RECURSIVE mulFrom(_, _, _, _)
mulFrom(a, b, l, carry) ==
  IF l > Limbs THEN << >>
  ELSE LET sum == column(a, b, l, 1) + carry
       IN  <<sum % LimbBase>> \o mulFrom(a, b, l + 1, sum \div LimbBase)

\* a.wrapping_mul(b) on u64: the limbs above the eighth are lost
wrapping_mul(a, b) == mulFrom(a, b, 1, 0)

RECURSIVE remFrom(_, _, _, _)
remFrom(a, n, l, r) ==
  IF l = 0 THEN r ELSE remFrom(a, n, l - 1, (r * LimbBase + a[l]) % n)

\* (a % n) as usize, for a u64 a and 0 < n < 2^23
u64rem(a, n) == remFrom(a, n, Limbs, 0)

(***************************************************************************)
(* HashIter (hashing.rs)                                                   *)
(***************************************************************************)

None == [some |-> FALSE]

Some(v) == [some |-> TRUE, val |-> v]

\* HashIter::from: a BuildHasher is modelled by the function from items to
\* the u64 its hasher finishes with
HashIter_from(item, count, build_hasher_one, build_hasher_two) ==
  [ h1 |-> build_hasher_one[item], h2 |-> build_hasher_two[item],
    i |-> 0, count |-> count ]

\* next with the sum held at u64::max_value() instead of wrapping
HashIter_next_saturating(self) ==
  IF self.i = self.count
  THEN [iter |-> self, r |-> None]
  ELSE LET p1 == wrapping_add(self.h1, u64(self.i))
           r  == CASE self.i = 0 -> self.h1
                   [] self.i = 1 -> self.h2
                   [] OTHER      -> wrapping_mul(IF p1[1] < self.i /\ \A l \in 2 .. Limbs : p1[l] = 0
                                                 THEN U64Max ELSE p1, self.h2)
       IN  [iter |-> [self EXCEPT !.i = self.i + 1], r |-> Some(r)]

\* Iterator::next for HashIter: the iterator after the call, and its result
HashIter_next(self) ==
  IF self.i = self.count
  THEN [iter |-> self, r |-> None]
  ELSE LET r == CASE self.i = 0 -> self.h1
                  [] self.i = 1 -> self.h2
                  [] OTHER      -> wrapping_mul(wrapping_add(self.h1, u64(self.i)), self.h2)
       IN  [iter |-> [self EXCEPT !.i = self.i + 1], r |-> Some(r)]

\* what a for loop over the iterator sees: the values up to the first None
RECURSIVE HashIter_collect(_)
HashIter_collect(self) ==
  LET n == HashIter_next(self)
  IN  IF n.r.some THEN <<n.r.val>> \o HashIter_collect(n.iter) ELSE << >>

(***************************************************************************)
(* The sizes, hashers and items the filters are built and used with        *)
(***************************************************************************)

\* the items passed to the filters
Items == {1, 2}

\* the num_entries of a CountingBloomFilter (with one entry every hasher
\* gives the same filter)
NumEntriesChoices == {2}

\* the num_bits of a BloomFilter
NumBitsChoices == {2, 3}

\* num_hashes is 1 .. MaxNumHashes
MaxNumHashes == 3

\* what a hasher finishes with: the smallest and the largest u64
HashChoices == {u64(0), U64Max}

\* the iterators HashIter::from can return
FreshIters == [h1 : HashChoices, h2 : HashChoices, i : {0}, count : 1 .. MaxNumHashes]

\* HashIter_collect and u64rem, tabulated: hashing an item is repeatable, so
\* every call on a filter sees the values its first call saw.  (f @@ << >>
\* is f, evaluated once.)
HashIter_values == [it \in FreshIters |-> HashIter_collect(it)] @@ << >>

ProbeValues ==
  UNION {{HashIter_values[it][p] : p \in 1 .. it.count} : it \in FreshIters}

u64rem_values ==
  [hn \in ProbeValues \X (NumEntriesChoices \cup NumBitsChoices) |-> u64rem(hn[1], hn[2])] @@ << >>

(***************************************************************************)
(* CountingBloomFilter (counting.rs)                                       *)
(***************************************************************************)

\* CountingBloomFilter::with_size_and_hashers
CountingBloomFilter_with_size_and_hashers(num_entries, bits_per_entry, num_hashes, hash_builder_one, hash_builder_two) ==
  [ counters         |-> ValueVec_new(bits_per_entry, num_entries),
    num_entries      |-> num_entries,
    num_hashes       |-> num_hashes,
    hash_builder_one |-> hash_builder_one,
    hash_builder_two |-> hash_builder_two ]

\* the probes of an item: HashIter::from(item, self.num_hashes, ...)
cbf_hashes(self, item) ==
  HashIter_values[HashIter_from(item, self.num_hashes,
                                self.hash_builder_one, self.hash_builder_two)]

\* (h % self.num_entries) as usize
cbf_idx(self, h) == u64rem_values[<<h, self.num_entries>>]

\* the loop of contains over the probes hs[p..]
RECURSIVE contains_loop(_, _, _)
contains_loop(self, hs, p) ==
  IF p > Len(hs) THEN TRUE
  ELSE LET cur == ValueVec_get(self.counters, cbf_idx(self, hs[p]))
       IN  IF cur = U32Zero THEN FALSE ELSE contains_loop(self, hs, p + 1)

\* CountingBloomFilter::contains
CountingBloomFilter_contains(self, item) ==
  contains_loop(self, cbf_hashes(self, item), 1)

\* the loop of estimate_count over the probes hs[p..]
RECURSIVE estimate_loop(_, _, _, _)
estimate_loop(self, hs, p, min) ==
  IF p > Len(hs) THEN min
  ELSE LET cur == ValueVec_get(self.counters, cbf_idx(self, hs[p]))
       IN  estimate_loop(self, hs, p + 1, IF u32lt(cur, min) THEN cur ELSE min)

\* CountingBloomFilter::estimate_count
CountingBloomFilter_estimate_count(self, item) ==
  estimate_loop(self, cbf_hashes(self, item), 1, U32Max)

\* insert_loop taking the minimum over the counters as it leaves them
RECURSIVE insert_loop_min_after(_, _, _, _)
insert_loop_min_after(self, hs, p, min) ==
  IF p > Len(hs) THEN [filter |-> self, min |-> min, panic |-> FALSE]
  ELSE LET idx  == cbf_idx(self, hs[p])
           cur  == ValueVec_get(self.counters, idx)
           new  == IF u32lt(cur, max_value(self.counters)) THEN u32inc(cur) ELSE cur
           min2 == IF u32lt(new, min) THEN new ELSE min
           w    == ValueVec_set(self.counters, idx, new)
       IN  insert_loop_min_after([self EXCEPT !.counters = w.vec], hs, p + 1, min2)

\* insert_loop without the test against max_value(): the counter wraps
RECURSIVE insert_loop_wrapping(_, _, _, _)
insert_loop_wrapping(self, hs, p, min) ==
  IF p > Len(hs) THEN [filter |-> self, min |-> min, panic |-> FALSE]
  ELSE LET idx  == cbf_idx(self, hs[p])
           cur  == ValueVec_get(self.counters, idx)
           min2 == IF u32lt(cur, min) THEN cur ELSE min
           w    == ValueVec_set(self.counters, idx,
                                band(u32inc(cur), max_value(self.counters)))
       IN  insert_loop_wrapping([self EXCEPT !.counters = w.vec], hs, p + 1, min2)

\* the loop of insert and insert_get_count over the probes hs[p..]: the
\* filter, the minimum and whether a counter write panicked
RECURSIVE insert_loop(_, _, _, _)
insert_loop(self, hs, p, min) ==
  IF p > Len(hs) THEN [filter |-> self, min |-> min, panic |-> FALSE]
  ELSE LET idx  == cbf_idx(self, hs[p])
           cur  == ValueVec_get(self.counters, idx)
           min2 == IF u32lt(cur, min) THEN cur ELSE min
       IN  IF u32lt(cur, max_value(self.counters))
           THEN LET w == ValueVec_set(self.counters, idx, u32inc(cur))
                IN  IF w.panic
                    THEN [filter |-> self, min |-> min2, panic |-> TRUE]
                    ELSE insert_loop([self EXCEPT !.counters = w.vec], hs, p + 1, min2)
           ELSE insert_loop(self, hs, p + 1, min2)

\* CountingBloomFilter::insert_get_count
CountingBloomFilter_insert_get_count(self, item) ==
  LET r == insert_loop(self, cbf_hashes(self, item), 1, U32Max)
  IN  [filter |-> r.filter, ret |-> r.min, panic |-> r.panic]

\* CountingBloomFilter::insert
CountingBloomFilter_insert(self, item) ==
  LET r == insert_loop(self, cbf_hashes(self, item), 1, U32Max)
  IN  [filter |-> r.filter, ret |-> u32gt(r.min, U32Zero), panic |-> r.panic]

\* the loop of remove leaving a counter that reads 1 as it is
RECURSIVE remove_loop_keeping_one(_, _, _, _)
remove_loop_keeping_one(self, hs, p, min) ==
  IF p > Len(hs) THEN [filter |-> self, min |-> min, panic |-> FALSE]
  ELSE LET idx  == cbf_idx(self, hs[p])
           cur  == ValueVec_get(self.counters, idx)
           min2 == IF u32lt(cur, min) THEN cur ELSE min
       IN  IF u32gt(cur, u32(1))
           THEN LET w == ValueVec_set(self.counters, idx, u32dec(cur))
                IN  IF w.panic
                    THEN [filter |-> self, min |-> min2, panic |-> TRUE]
                    ELSE remove_loop_keeping_one([self EXCEPT !.counters = w.vec], hs, p + 1, min2)
           ELSE IF u32gt(cur, U32Zero)
                THEN remove_loop_keeping_one(self, hs, p + 1, min2)
                ELSE [filter |-> self, min |-> min2, panic |-> TRUE]

\* the loop of remove over the probes hs[p..]: a counter that reads 0
\* panics, with the counters decremented so far left decremented
RECURSIVE remove_loop(_, _, _, _)
remove_loop(self, hs, p, min) ==
  IF p > Len(hs) THEN [filter |-> self, min |-> min, panic |-> FALSE]
  ELSE LET idx  == cbf_idx(self, hs[p])
           cur  == ValueVec_get(self.counters, idx)
           min2 == IF u32lt(cur, min) THEN cur ELSE min
       IN  IF u32gt(cur, U32Zero)
           THEN LET w == ValueVec_set(self.counters, idx, u32dec(cur))
                IN  IF w.panic
                    THEN [filter |-> self, min |-> min2, panic |-> TRUE]
                    ELSE remove_loop([self EXCEPT !.counters = w.vec], hs, p + 1, min2)
           ELSE [filter |-> self, min |-> min2, panic |-> TRUE]

\* remove without its contains check
CountingBloomFilter_remove_unchecked(self, item) ==
  LET r == remove_loop(self, cbf_hashes(self, item), 1, U32Max)
  IN  [filter |-> r.filter, ret |-> r.min, panic |-> r.panic]

\* CountingBloomFilter::remove
CountingBloomFilter_remove(self, item) ==
  IF ~CountingBloomFilter_contains(self, item)
  THEN [filter |-> self, ret |-> U32Zero, panic |-> FALSE]
  ELSE LET r == remove_loop(self, cbf_hashes(self, item), 1, U32Max)
       IN  [filter |-> r.filter, ret |-> r.min, panic |-> r.panic]

\* CountingBloomFilter::clear
CountingBloomFilter_clear(self) ==
  [self EXCEPT !.counters = ValueVec_clear(self.counters)]

(***************************************************************************)
(* BloomFilter (bloom.rs) over the BitVec of the bit_vec crate, a sequence *)
(* of booleans here: bit idx of the code is element idx + 1                *)
(***************************************************************************)

\* BitVec::from_elem
BitVec_from_elem(nbits, bit) == [i \in 1 .. nbits |-> bit]

\* BitVec::get
BitVec_get(self, idx) == IF idx < Len(self) THEN Some(self[idx + 1]) ELSE None

\* BitVec::set, for idx < len
BitVec_set(self, idx, bit) == [self EXCEPT ![idx + 1] = bit]

\* BitVec::clear
BitVec_clear(self) == [i \in DOMAIN self |-> FALSE]

\* BitVec::union: asserts the lengths equal before it writes; the bits,
\* whether they changed, and whether the call panicked
BitVec_union(self, other) ==
  IF Len(self) # Len(other)
  THEN [bits |-> self, ret |-> FALSE, panic |-> TRUE]
  ELSE LET r == [i \in DOMAIN self |-> self[i] \/ other[i]]
       IN  [bits |-> r, ret |-> r # self, panic |-> FALSE]

\* BitVec::intersect: asserts the lengths equal before it writes
BitVec_intersect(self, other) ==
  IF Len(self) # Len(other)
  THEN [bits |-> self, ret |-> FALSE, panic |-> TRUE]
  ELSE LET r == [i \in DOMAIN self |-> self[i] /\ other[i]]
       IN  [bits |-> r, ret |-> r # self, panic |-> FALSE]

\* BloomFilter::with_size_and_hashers
BloomFilter_with_size_and_hashers(num_bits, num_hashes, hash_builder_one, hash_builder_two) ==
  [ bits             |-> BitVec_from_elem(num_bits, FALSE),
    num_hashes       |-> num_hashes,
    hash_builder_one |-> hash_builder_one,
    hash_builder_two |-> hash_builder_two ]

\* the values of HashIter::from(item, self.num_hashes, ..)
bf_hashes(self, item) ==
  HashIter_values[HashIter_from(item, self.num_hashes,
                                self.hash_builder_one, self.hash_builder_two)]

\* (h % self.bits.len() as u64) as usize
bf_idx(self, h) == u64rem_values[<<h, Len(self.bits)>>]

\* the loop of BloomFilter::insert setting the bit of a probe only while
\* every earlier bit was found set
RECURSIVE BloomFilter_insert_loop_until_unset(_, _, _, _)
BloomFilter_insert_loop_until_unset(self, hs, p, contained) ==
  IF p > Len(hs) THEN [filter |-> self, contained |-> contained, panic |-> FALSE]
  ELSE LET idx == bf_idx(self, hs[p])
           b   == BitVec_get(self.bits, idx)
       IN  IF ~b.some
           THEN [filter |-> self, contained |-> contained, panic |-> TRUE]
           ELSE BloomFilter_insert_loop_until_unset(
                  IF contained
                  THEN [self EXCEPT !.bits = BitVec_set(self.bits, idx, TRUE)]
                  ELSE self,
                  hs, p + 1, contained /\ b.val)

\* the loop of BloomFilter::insert over the probes hs[p..]: the filter,
\* contained, and whether bits.get returned None
RECURSIVE BloomFilter_insert_loop(_, _, _, _)
BloomFilter_insert_loop(self, hs, p, contained) ==
  IF p > Len(hs) THEN [filter |-> self, contained |-> contained, panic |-> FALSE]
  ELSE LET idx == bf_idx(self, hs[p])
           b   == BitVec_get(self.bits, idx)
       IN  IF ~b.some
           THEN [filter |-> self, contained |-> contained, panic |-> TRUE]
           ELSE BloomFilter_insert_loop(
                  [self EXCEPT !.bits = BitVec_set(self.bits, idx, TRUE)],
                  hs, p + 1, contained /\ b.val)

\* insert returning contained instead of its negation
BloomFilter_insert_returns_contained(self, item) ==
  LET r == BloomFilter_insert_loop(self, bf_hashes(self, item), 1, TRUE)
  IN  [filter |-> r.filter, ret |-> r.contained, panic |-> r.panic]

\* BloomFilter::insert
BloomFilter_insert(self, item) ==
  LET r == BloomFilter_insert_loop(self, bf_hashes(self, item), 1, TRUE)
  IN  [filter |-> r.filter, ret |-> ~r.contained, panic |-> r.panic]

\* the loop of BloomFilter::contains over the probes hs[p..]: bits.get
\* returns Some for an index below bits.len(), so its None arm is not taken
RECURSIVE BloomFilter_contains_loop(_, _, _)
BloomFilter_contains_loop(self, hs, p) ==
  IF p > Len(hs) THEN TRUE
  ELSE LET b == BitVec_get(self.bits, bf_idx(self, hs[p]))
       IN  IF ~b.val THEN FALSE ELSE BloomFilter_contains_loop(self, hs, p + 1)

\* BloomFilter::contains
BloomFilter_contains(self, item) ==
  BloomFilter_contains_loop(self, bf_hashes(self, item), 1)

\* BloomFilter::clear
BloomFilter_clear(self) == [self EXCEPT !.bits = BitVec_clear(self.bits)]

\* intersect calling bits.union
BloomFilter_intersect_by_union(self, other) ==
  LET r == BitVec_union(self.bits, other.bits)
  IN  [filter |-> [self EXCEPT !.bits = r.bits], ret |-> r.ret, panic |-> r.panic]

\* BloomFilter::intersect
BloomFilter_intersect(self, other) ==
  LET r == BitVec_intersect(self.bits, other.bits)
  IN  [filter |-> [self EXCEPT !.bits = r.bits], ret |-> r.ret, panic |-> r.panic]

\* union or'ing the bits both filters have and returning, whatever their
\* lengths
BloomFilter_union_common_bits(self, other) ==
  LET r == [i \in DOMAIN self.bits |->
              self.bits[i] \/ (i <= Len(other.bits) /\ other.bits[i])]
  IN  [filter |-> [self EXCEPT !.bits = r], ret |-> r # self.bits, panic |-> FALSE]

\* union calling bits.intersect
BloomFilter_union_by_intersect(self, other) ==
  LET r == BitVec_intersect(self.bits, other.bits)
  IN  [filter |-> [self EXCEPT !.bits = r.bits], ret |-> r.ret, panic |-> r.panic]

\* BloomFilter::union
BloomFilter_union(self, other) ==
  LET r == BitVec_union(self.bits, other.bits)
  IN  [filter |-> [self EXCEPT !.bits = r.bits], ret |-> r.ret, panic |-> r.panic]

(***************************************************************************)
(* The ValueVec on its own: a vector is built, then set, read and cleared. *)
(***************************************************************************)

\* the widest value 2u32.pow(bits_per_val)-1 can be computed for
MaxBitsPerVal == 31

\* how many slots, counted back from the last one, the calls address
NumSlots == 3

\* the vector holds the slots of the first block, the slot after them and
\* one more: its last slots lie on both sides of the first block boundary
SlotCount(bits_per_val) == (WordBits \div bits_per_val) + 2

Slots(self) == 0 .. ((self.nbits \div self.bits_per_val) - 1)

\* the slots the calls address
SlotChoices(self) ==
  {i \in Slots(self) : i + NumSlots >= self.nbits \div self.bits_per_val}

\* the values the calls pass: 0, the lowest and the highest bit together,
\* the largest value, and two values that need more than bits_per_val bits
ValChoices(self) ==
  { U32Zero, {0, self.bits_per_val - 1}, self.mask,
    {self.bits_per_val}, U32Max }

NoOp == [op |-> "new", i |-> 0, val |-> U32Zero, ret |-> U32Zero]

\* the variables of a specification that does not use them
Unused == [op |-> "unused"]

CountingUnused ==
  /\ cbf = Unused
  /\ cbfOp = Unused
  /\ cbfPanicked = FALSE
  /\ inserted = 0
  /\ removed = 0
  /\ insertedOther = FALSE
  /\ removedOther = FALSE
  /\ reinserted = FALSE
  /\ beforeInsert = Unused

BloomUnused ==
  /\ bf = Unused
  /\ bfOp = Unused
  /\ bfPanicked = FALSE
  /\ bfInserted = {}

HashIterUnused ==
  /\ hi = Unused
  /\ hiOut = Unused

InitValueVec ==
  /\ \E bits_per_val \in 1 .. MaxBitsPerVal :
       vv = ValueVec_new(bits_per_val, SlotCount(bits_per_val))
  /\ vvOp = NoOp
  /\ vvPanicked = FALSE
  /\ CountingUnused
  /\ BloomUnused
  /\ HashIterUnused

\* vv.set(i, val)
VVSet ==
  /\ UNCHANGED <<cbfVars, bfVars, hiVars>>
  /\ ~vvPanicked
  /\ \E i \in SlotChoices(vv), val \in ValChoices(vv) :
       LET r == ValueVec_set(vv, i, val)
       IN  /\ vv' = r.vec
           /\ vvPanicked' = r.panic
           /\ vvOp' = [op |-> "set", i |-> i, val |-> val, ret |-> U32Zero]

\* vv.get(i)
VVGet ==
  /\ UNCHANGED <<cbfVars, bfVars, hiVars>>
  /\ ~vvPanicked
  /\ \E i \in SlotChoices(vv) :
       /\ vvOp' = [op |-> "get", i |-> i, val |-> U32Zero, ret |-> ValueVec_get(vv, i)]
       /\ UNCHANGED <<vv, vvPanicked>>

\* vv.clear()
VVClear ==
  /\ UNCHANGED <<cbfVars, bfVars, hiVars>>
  /\ ~vvPanicked
  /\ vv' = ValueVec_clear(vv)
  /\ vvOp' = [op |-> "clear", i |-> 0, val |-> U32Zero, ret |-> U32Zero]
  /\ UNCHANGED vvPanicked

NextValueVec == VVSet \/ VVGet \/ VVClear

SpecValueVec == InitValueVec /\ [][NextValueVec]_vars

(***************************************************************************)
(* The CountingBloomFilter: a filter is built with a size, a counter       *)
(* width, a number of hashes and two hashers, then used by one owner.      *)
(* The calls are counted for one item, Tracked; the hashers range over     *)
(* every assignment, so what holds of Tracked holds of every item.         *)
(***************************************************************************)

\* the widths of a counter: one bit, where a counter saturates at its first
\* increment, and two
BitsPerEntryChoices == {1, 2}

\* Tracked is inserted at most MaxInserts times between two clears
MaxInserts == 2

\* remove(Tracked) is called at most MaxRemoves times between two clears
MaxRemoves == 1

\* the item whose calls are counted
Tracked == CHOOSE x \in Items : \A y \in Items : x <= y

NoCall == [op |-> "new", item |-> 0, ret |-> U32Zero, ok |-> FALSE]

\* the last call on self was neither an insert nor a remove after one
NoInsert(self) == [item |-> 0, counters |-> self.counters, removed |-> FALSE]

ValueVecUnused ==
  /\ vv = Unused
  /\ vvOp = Unused
  /\ vvPanicked = FALSE

InitCounting ==
  /\ \E num_entries \in NumEntriesChoices,
        bits_per_entry \in BitsPerEntryChoices,
        num_hashes \in 1 .. MaxNumHashes,
        hash_builder_one \in [Items -> HashChoices],
        hash_builder_two \in [Items -> HashChoices] :
       cbf = CountingBloomFilter_with_size_and_hashers(
               num_entries, bits_per_entry, num_hashes,
               hash_builder_one, hash_builder_two)
  /\ cbfOp = NoCall
  /\ cbfPanicked = FALSE
  /\ inserted = 0
  /\ removed = 0
  /\ insertedOther = FALSE
  /\ removedOther = FALSE
  /\ reinserted = FALSE
  /\ beforeInsert = NoInsert(cbf)
  /\ ValueVecUnused
  /\ BloomUnused
  /\ HashIterUnused

\* the counts after a call that inserts item
CountInsert(item) ==
  /\ item = Tracked => inserted < MaxInserts
  /\ inserted' = IF item = Tracked THEN inserted + 1 ELSE inserted
  /\ reinserted' = (reinserted \/ (item = Tracked /\ removed > 0))
  /\ insertedOther' = (insertedOther \/ item # Tracked)
  /\ beforeInsert' = [item |-> item, counters |-> cbf.counters, removed |-> FALSE]
  /\ UNCHANGED <<removed, removedOther>>

\* the counts after a call that removes item
CountRemove(item) ==
  /\ item = Tracked => removed < MaxRemoves
  /\ removed' = IF item = Tracked THEN removed + 1 ELSE removed
  /\ removedOther' = (removedOther \/ item # Tracked)
  /\ beforeInsert' = IF beforeInsert.item = item /\ ~beforeInsert.removed
                     THEN [beforeInsert EXCEPT !.removed = TRUE]
                     ELSE NoInsert(cbf')
  /\ UNCHANGED <<inserted, insertedOther, reinserted>>

\* cbf.insert(&item)
CBFInsert ==
  /\ UNCHANGED <<vvVars, bfVars, hiVars>>
  /\ ~cbfPanicked
  /\ \E item \in Items :
       LET r == CountingBloomFilter_insert(cbf, item)
       IN  /\ cbf' = r.filter
           /\ cbfPanicked' = r.panic
           /\ cbfOp' = [op |-> "insert", item |-> item, ret |-> U32Zero, ok |-> r.ret]
           /\ CountInsert(item)

\* cbf.insert_get_count(&item)
CBFInsertGetCount ==
  /\ UNCHANGED <<vvVars, bfVars, hiVars>>
  /\ ~cbfPanicked
  /\ \E item \in Items :
       LET r == CountingBloomFilter_insert_get_count(cbf, item)
       IN  /\ cbf' = r.filter
           /\ cbfPanicked' = r.panic
           /\ cbfOp' = [op |-> "insert_get_count", item |-> item, ret |-> r.ret, ok |-> FALSE]
           /\ CountInsert(item)

\* cbf.remove(&item)
CBFRemove ==
  /\ UNCHANGED <<vvVars, bfVars, hiVars>>
  /\ ~cbfPanicked
  /\ \E item \in Items :
       LET r == CountingBloomFilter_remove(cbf, item)
       IN  /\ cbf' = r.filter
           /\ cbfPanicked' = r.panic
           /\ cbfOp' = [op |-> "remove", item |-> item, ret |-> r.ret, ok |-> FALSE]
           /\ CountRemove(item)

\* cbf.clear()
CBFClear ==
  /\ UNCHANGED <<vvVars, bfVars, hiVars>>
  /\ ~cbfPanicked
  /\ cbf' = CountingBloomFilter_clear(cbf)
  /\ cbfOp' = [op |-> "clear", item |-> 0, ret |-> U32Zero, ok |-> FALSE]
  /\ inserted' = 0
  /\ removed' = 0
  /\ insertedOther' = FALSE
  /\ removedOther' = FALSE
  /\ reinserted' = FALSE
  /\ beforeInsert' = NoInsert(cbf')
  /\ UNCHANGED cbfPanicked

NextCounting == CBFInsert \/ CBFInsertGetCount \/ CBFRemove \/ CBFClear

SpecCounting == InitCounting /\ [][NextCounting]_vars

(***************************************************************************)
(* The BloomFilter: a filter is built with a size, a number of hashes and  *)
(* two hashers, then used by one owner, who also unions and intersects it  *)
(* with other filters.                                                     *)
(***************************************************************************)

\* the filter after the inserts of items[p..]
RECURSIVE BloomFilter_insert_all(_, _, _)
BloomFilter_insert_all(self, items, p) ==
  IF p > Len(items) THEN self
  ELSE BloomFilter_insert_all(BloomFilter_insert(self, items[p]).filter, items, p + 1)

\* the orders in which items can be inserted into an other filter
InsertOrders == {<< >>} \cup {<<x>> : x \in Items} \cup {<<x, y>> : x, y \in Items}

\* the items of a sequence
ItemsOf(items) == {items[p] : p \in 1 .. Len(items)}

\* the filters passed as other that were built with hashers of their own
\* (the RandomState::new() of with_size, or any passed to
\* with_size_and_hashers), by their num_hashes: their bits, after the
\* inserts of items
OwnHasherOthers ==
  [ num_hashes \in 1 .. MaxNumHashes |->
      { [ bits    |-> BloomFilter_insert_all(
                        BloomFilter_with_size_and_hashers(num_bits, num_hashes, h[1], h[2]),
                        items, 1).bits,
          hashers |-> "own",
          items   |-> ItemsOf(items) ] :
          num_bits \in NumBitsChoices,
          h \in [Items -> HashChoices] \X [Items -> HashChoices],
          items \in InsertOrders } ] @@ << >>

\* the filters passed as other that were built with the num_bits, the
\* num_hashes and the hashers of self
SameHasherOthers(self) ==
  { [ bits    |-> BloomFilter_insert_all(BloomFilter_clear(self), items, 1).bits,
      hashers |-> "self",
      items   |-> ItemsOf(items) ] : items \in InsertOrders }

\* the filters passed as other to self, which intersect and union read the
\* bits of
Others(self) == SameHasherOthers(self) \cup OwnHasherOthers[self.num_hashes]

NoOther == [bits |-> << >>, hashers |-> "none", items |-> {}]

NoBloomCall == [op |-> "new", item |-> 0, other |-> NoOther, ret |-> FALSE]

InitBloom ==
  /\ \E num_bits \in NumBitsChoices,
        num_hashes \in 1 .. MaxNumHashes,
        hash_builder_one \in [Items -> HashChoices],
        hash_builder_two \in [Items -> HashChoices] :
       bf = BloomFilter_with_size_and_hashers(
              num_bits, num_hashes, hash_builder_one, hash_builder_two)
  /\ bfOp = NoBloomCall
  /\ bfPanicked = FALSE
  /\ bfInserted = {}
  /\ ValueVecUnused
  /\ CountingUnused
  /\ HashIterUnused

\* bf.insert(&item)
BFInsert ==
  /\ UNCHANGED <<vvVars, cbfVars, hiVars>>
  /\ ~bfPanicked
  /\ \E item \in Items :
       LET r == BloomFilter_insert(bf, item)
       IN  /\ bf' = r.filter
           /\ bfPanicked' = r.panic
           /\ bfOp' = [op |-> "insert", item |-> item, other |-> NoOther, ret |-> r.ret]
           /\ bfInserted' = bfInserted \cup {item}

\* bf.clear()
BFClear ==
  /\ UNCHANGED <<vvVars, cbfVars, hiVars>>
  /\ ~bfPanicked
  /\ bf' = BloomFilter_clear(bf)
  /\ bfOp' = [op |-> "clear", item |-> 0, other |-> NoOther,
              ret |-> \E i \in DOMAIN bf.bits : bf.bits[i]]
  /\ bfInserted' = {}
  /\ UNCHANGED bfPanicked

\* bf.union(&other)
BFUnion ==
  /\ UNCHANGED <<vvVars, cbfVars, hiVars>>
  /\ ~bfPanicked
  /\ \E other \in Others(bf) :
       LET r == BloomFilter_union(bf, other)
       IN  /\ bf' = r.filter
           /\ bfPanicked' = r.panic
           /\ bfOp' = [op |-> "union", item |-> 0, other |-> other, ret |-> r.ret]
           /\ UNCHANGED bfInserted

\* bf.intersect(&other)
BFIntersect ==
  /\ UNCHANGED <<vvVars, cbfVars, hiVars>>
  /\ ~bfPanicked
  /\ \E other \in Others(bf) :
       LET r == BloomFilter_intersect(bf, other)
       IN  /\ bf' = r.filter
           /\ bfPanicked' = r.panic
           /\ bfOp' = [op |-> "intersect", item |-> 0, other |-> other, ret |-> r.ret]
           /\ bfInserted' = {}

NextBloom == BFInsert \/ BFClear \/ BFUnion \/ BFIntersect

SpecBloom == InitBloom /\ [][NextBloom]_vars

(***************************************************************************)
(* The HashIter specification: an iterator is built from two hash values   *)
(* and a count, and next is called on it, also after it has ended          *)
(***************************************************************************)

\* the largest count an iterator is built with
MaxCount == 4

\* the calls of next made after the first None
MaxExtraNext == 2

\* 2^63
U64HighBit == [l \in 1 .. Limbs |-> IF l = Limbs THEN LimbBase \div 2 ELSE 0]

\* 0x0123456789abcdef
U64Mixed == <<239, 205, 171, 137, 103, 69, 35, 1>>

\* the values the two hashers finish with
HashValues == {u64(0), u64(1), u64(3), U64HighBit, U64Mixed, U64Max}

FilterUnused ==
  /\ ValueVecUnused
  /\ CountingUnused
  /\ BloomUnused

InitHashIter ==
  /\ \E h1 \in HashValues, h2 \in HashValues, count \in 0 .. MaxCount :
       hi = HashIter_from(1, count, [x \in {1} |-> h1], [x \in {1} |-> h2])
  /\ hiOut = << >>
  /\ FilterUnused

\* hi.next()
HINext ==
  /\ UNCHANGED <<vvVars, cbfVars, bfVars>>
  /\ Len(hiOut) < hi.count + MaxExtraNext
  /\ LET n == HashIter_next(hi)
     IN  /\ hi' = n.iter
         /\ hiOut' = Append(hiOut, n.r)

NextHashIter == HINext

SpecHashIter == InitHashIter /\ [][NextHashIter]_vars

(***************************************************************************)
(* Properties of the ValueVec                                              *)
(***************************************************************************)

\* slot i lies in two blocks
Straddles(self, i) ==
  WordBits - ((i * self.bits_per_val) % WordBits) < self.bits_per_val

\* slots i and j have bits in a common block
ShareBlock(self, i, j) ==
  LET first(k) == (k * self.bits_per_val) \div WordBits
      last(k)  == ((k + 1) * self.bits_per_val - 1) \div WordBits
  IN  first(i) <= last(j) /\ first(j) <= last(i)

\* C1: after set(i, v) with v <= max_value(), get(i) returns v, for every
\* width 1..31, whether slot i lies in one block or in two, and whatever
\* the slots held before.
C1_SetGetRoundTrip ==
  (vvOp.op = "set" /\ ~vvPanicked) => ValueVec_get(vv, vvOp.i) = vvOp.val

\* C1 witness: a nonzero value was written to a slot that lies in two
\* blocks, over a neighbour that holds the largest value.
C1_Witness ==
  /\ vvOp.op = "set" /\ ~vvPanicked
  /\ Straddles(vv, vvOp.i)
  /\ vvOp.val = {0, vv.bits_per_val - 1}
  /\ ValueVec_get(vv, vvOp.i) = vvOp.val
  /\ ValueVec_get(vv, vvOp.i - 1) = vv.mask

\* C2: set(i, v) with v <= max_value() leaves every other slot j with the
\* value it had, also when i or j lies in two blocks and they share one.
C2_SetFrame ==
  [][ (vvOp'.op = "set" /\ ~vvPanicked')
        => \A j \in Slots(vv) \ {vvOp'.i} :
             ValueVec_get(vv', j) = ValueVec_get(vv, j) ]_vars

\* C2 witness: 0 was written to a slot in two blocks while the slots before
\* and after it, which share its blocks, hold the largest value.
C2_Witness ==
  /\ vvOp.op = "set" /\ ~vvPanicked
  /\ Straddles(vv, vvOp.i)
  /\ vvOp.val = U32Zero
  /\ vvOp.i + 1 \in Slots(vv)
  /\ ShareBlock(vv, vvOp.i, vvOp.i - 1) /\ ShareBlock(vv, vvOp.i, vvOp.i + 1)
  /\ ValueVec_get(vv, vvOp.i - 1) = vv.mask
  /\ ValueVec_get(vv, vvOp.i + 1) = vv.mask

\* C3: set(i, v) with v > max_value() panics and writes nothing: every
\* block, so every slot, is as it was.
C3_SetOverMaxPanics ==
  [][ (vvOp'.op = "set" /\ u32gt(vvOp'.val, max_value(vv)))
        => (vvPanicked' /\ vv' = vv) ]_vars

\* C3 witness: set panicked on max_value()+1 for a slot that held the
\* largest value, which it still holds.
C3_Witness ==
  /\ vvPanicked /\ vvOp.op = "set"
  /\ vvOp.val = {vv.bits_per_val}
  /\ ValueVec_get(vv, vvOp.i) = vv.mask

(***************************************************************************)
(* Properties of the BloomFilter                                           *)
(***************************************************************************)

\* C4: an item inserted since the last clear, with only inserts and unions
\* after its insert, is contained.
C4_NoFalseNegative ==
  ~bfPanicked => \A x \in bfInserted : BloomFilter_contains(bf, x)

\* C4 witness: both items were inserted and a union then set a further
\* bit, in a filter of three bits, one of them still unset, probed at two
\* or more indices per item.
C4_Witness ==
  /\ ~bfPanicked
  /\ bfInserted = Items
  /\ bfOp.op = "union" /\ bfOp.ret
  /\ bf.num_hashes >= 2
  /\ \E i \in DOMAIN bf.bits : ~bf.bits[i]
  /\ \A x \in Items : BloomFilter_contains(bf, x)

\* the bit indices an item's probes reduce to
ProbedBits(self, item) ==
  LET hs == bf_hashes(self, item)
  IN  {bf_idx(self, hs[p]) : p \in 1 .. Len(hs)}

\* self with the bits of other: the other filter, when it has the hashers
\* and the num_hashes of self
WithBitsOf(self, other) == [self EXCEPT !.bits = other.bits]

IsCombine(op) == op.op \in {"intersect", "union"}

\* C13: insert sets the bit at every index the item's probes reduce to and
\* returns true exactly when one of them was unset before, which is when
\* the item was not contained before; when it returns false the bits are
\* as they were.
C13_BloomInsert ==
  [][ bfOp'.op = "insert"
        => /\ ~bfPanicked'
           /\ \A idx \in ProbedBits(bf, bfOp'.item) : bf'.bits[idx + 1]
           /\ bfOp'.ret = (\E idx \in ProbedBits(bf, bfOp'.item) : ~bf.bits[idx + 1])
           /\ bfOp'.ret = ~BloomFilter_contains(bf, bfOp'.item)
           /\ ~bfOp'.ret => bf'.bits = bf.bits ]_vars

\* C13 witness: insert returned false, the bits of its item at two or more
\* indices being set already, in a filter with a bit still unset.
C13_Witness ==
  /\ ~bfPanicked
  /\ bfOp.op = "insert" /\ ~bfOp.ret
  /\ bf.num_hashes >= 2
  /\ Cardinality(ProbedBits(bf, bfOp.item)) >= 2
  /\ \E i \in DOMAIN bf.bits : ~bf.bits[i]

\* C14: intersect and union with a filter of another num_bits panic and
\* leave the bits of self as they were.
C14_SizeMismatchPanics ==
  [][ (IsCombine(bfOp') /\ Len(bfOp'.other.bits) # Len(bf.bits))
        => (bfPanicked' /\ bf' = bf) ]_vars

\* C14 witness: a union with a shorter filter, some of whose set bits were
\* unset in self, panicked.
C14_Witness ==
  /\ bfPanicked
  /\ bfOp.op = "union"
  /\ Len(bfOp.other.bits) < Len(bf.bits)
  /\ \E i \in DOMAIN bfOp.other.bits : bfOp.other.bits[i] /\ ~bf.bits[i]
  /\ \E i \in DOMAIN bf.bits : bf.bits[i]

\* C15: after intersect with a filter of the same num_bits, num_hashes and
\* hashers, the bits of self are the bitwise and of both; an item is
\* contained exactly when both filters contained it before, so an item
\* inserted into both is contained.
C15_IntersectIsAnd ==
  [][ (bfOp'.op = "intersect" /\ bfOp'.other.hashers = "self")
        => LET other == bfOp'.other
           IN  /\ ~bfPanicked'
               /\ bf'.bits = [i \in DOMAIN bf.bits |-> bf.bits[i] /\ other.bits[i]]
               /\ \A x \in Items :
                    BloomFilter_contains(bf', x)
                      = (BloomFilter_contains(bf, x)
                           /\ BloomFilter_contains(WithBitsOf(bf, other), x))
               /\ \A x \in bfInserted \cap other.items :
                    BloomFilter_contains(bf', x) ]_vars

\* C15 witness: an intersect that changed the bits of self left the one
\* item inserted into the other filter contained, and no other.
C15_Witness ==
  /\ ~bfPanicked
  /\ bfOp.op = "intersect" /\ bfOp.other.hashers = "self" /\ bfOp.ret
  /\ Cardinality(bfOp.other.items) = 1
  /\ \A x \in Items : BloomFilter_contains(bf, x) = (x \in bfOp.other.items)

\* C16: after union with a filter of the same num_bits, num_hashes and
\* hashers, the bits of self are the bitwise or of both, and every item
\* either filter contained before is contained.
C16_UnionIsOr ==
  [][ (bfOp'.op = "union" /\ bfOp'.other.hashers = "self")
        => LET other == bfOp'.other
           IN  /\ ~bfPanicked'
               /\ bf'.bits = [i \in DOMAIN bf.bits |-> bf.bits[i] \/ other.bits[i]]
               /\ \A x \in Items :
                    (BloomFilter_contains(bf, x)
                       \/ BloomFilter_contains(WithBitsOf(bf, other), x))
                      => BloomFilter_contains(bf', x) ]_vars

\* C16 witness: a union brought in an item that only the other filter
\* held, next to the item only self held, with a bit left unset.
C16_Witness ==
  /\ ~bfPanicked
  /\ bfOp.op = "union" /\ bfOp.other.hashers = "self" /\ bfOp.ret
  /\ Cardinality(bfInserted) = 1
  /\ bfOp.other.items = Items \ bfInserted
  /\ \A x \in Items : BloomFilter_contains(bf, x)
  /\ \E i \in DOMAIN bf.bits : ~bf.bits[i]

\* C20, as claimed: after an item was inserted into self and into a filter
\* built by with_size with the same num_bits and num_hashes, an intersect
\* of self with that filter leaves the item contained.
C20_DefaultFiltersIntersect ==
  [][ (bfOp'.op = "intersect" /\ bfOp'.other.hashers = "own"
         /\ Len(bfOp'.other.bits) = Len(bf.bits))
        => \A x \in bfInserted \cap bfOp'.other.items :
             BloomFilter_contains(bf', x) ]_vars

(***************************************************************************)
(* Properties of the CountingBloomFilter                                   *)
(***************************************************************************)

\* the entries of the filter
Entries(self) == 0 .. (self.num_entries - 1)

\* the entries an item's probes reduce to
ProbedEntries(self, item) ==
  LET hs == cbf_hashes(self, item)
  IN  {cbf_idx(self, hs[p]) : p \in 1 .. Len(hs)}

\* two of the item's probes reduce to the same entry
HasRepeatedEntry(self, item) ==
  Cardinality(ProbedEntries(self, item)) < self.num_hashes

\* no other item shares an entry with Tracked
TrackedAlone ==
  \A y \in Items \ {Tracked} :
    ProbedEntries(cbf, y) \cap ProbedEntries(cbf, Tracked) = {}

\* only inserts (and reads) were made since the last clear
OnlyInserts == removed = 0 /\ ~removedOther

IsInsert(op) == op.op \in {"insert", "insert_get_count"}

\* C5, as claimed, for removes that follow inserts of what they remove:
\* after inserts of any items and then no more removes of Tracked than it
\* was inserted, an item other than Tracked that was inserted and never
\* itself removed is contained.
C5_NoFalseNegative ==
  (~cbfPanicked /\ insertedOther /\ ~removedOther
     /\ removed <= inserted /\ ~reinserted)
    => \A y \in Items \ {Tracked} : CountingBloomFilter_contains(cbf, y)

\* C6, as claimed: remove never finds a counter at 0 after its contains
\* check, so it never panics.
C6_RemoveNeverPanics == ~(cbfPanicked /\ cbfOp.op = "remove")

\* C7: every counter is at most max_value(); an insert or insert_get_count
\* leaves a counter that is at max_value() there, and does not panic; and
\* after only inserts, once an item was inserted more than max_value()
\* times, every counter it probes is at max_value().
C7_CountersSaturate ==
  /\ [](\A e \in Entries(cbf) :
          ~u32gt(ValueVec_get(cbf.counters, e), max_value(cbf.counters)))
  /\ []((~cbfPanicked /\ OnlyInserts /\ inserted > nat(max_value(cbf.counters)))
          => \A e \in ProbedEntries(cbf, Tracked) :
               ValueVec_get(cbf.counters, e) = max_value(cbf.counters))
  /\ [][ IsInsert(cbfOp')
           => /\ ~cbfPanicked'
              /\ \A e \in Entries(cbf) :
                   ValueVec_get(cbf.counters, e) = max_value(cbf.counters)
                     => ValueVec_get(cbf'.counters, e) = max_value(cbf.counters) ]_vars

\* C7 witness: an item was inserted more often than max_value(), the last
\* time into counters that were already there, and its counters are there.
C7_Witness ==
  /\ ~cbfPanicked /\ OnlyInserts
  /\ cbfOp.op = "insert" /\ cbfOp.item = Tracked /\ cbfOp.ok
  /\ inserted > nat(max_value(cbf.counters))
  /\ cbf.num_hashes >= 2
  /\ \A e \in ProbedEntries(cbf, Tracked) :
       ValueVec_get(cbf.counters, e) = max_value(cbf.counters)

\* C8, as claimed: after only inserts, estimate_count is at least the number
\* of times the item was inserted.
C8_NeverUndercounts ==
  (~cbfPanicked /\ OnlyInserts)
    => ~u32lt(CountingBloomFilter_estimate_count(cbf, Tracked), u32(inserted))

\* C9, as claimed (its first half, for a remove that returns): remove of an
\* item that is contained returns what estimate_count returned before it.
C9_RemoveReturnsEstimate ==
  [][ (cbfOp'.op = "remove" /\ ~cbfPanicked'
         /\ CountingBloomFilter_contains(cbf, cbfOp'.item))
        => cbfOp'.ret = CountingBloomFilter_estimate_count(cbf, cbfOp'.item) ]_vars

\* C10, as claimed: an item that shares no entry with another item, that
\* was inserted n times and on which remove was then called n times, was
\* removed without a panic and is no longer contained.
C10_RemovalBalance ==
  (inserted >= 1 /\ removed = inserted /\ ~reinserted /\ TrackedAlone)
    => (~cbfPanicked /\ ~CountingBloomFilter_contains(cbf, Tracked))

\* C11: remove of an item that is not contained returns 0, does not panic
\* and leaves the filter, every counter included, as it was.
C11_RemoveAbsent ==
  [][ (cbfOp'.op = "remove" /\ ~CountingBloomFilter_contains(cbf, cbfOp'.item))
        => /\ cbfOp'.ret = U32Zero
           /\ ~cbfPanicked'
           /\ cbf' = cbf ]_vars

\* C11 witness: remove returned 0 for an item that is not contained
\* although one of the counters it probes is not 0.
C11_Witness ==
  /\ cbfOp.op = "remove" /\ cbfOp.ret = U32Zero /\ ~cbfPanicked
  /\ ~CountingBloomFilter_contains(cbf, cbfOp.item)
  /\ \E e \in ProbedEntries(cbf, cbfOp.item) : ValueVec_get(cbf.counters, e) # U32Zero

\* C12: insert_get_count returns what estimate_count returned before the
\* call; insert returns true exactly when that value is above 0, which is
\* exactly when the item was contained before the call.
C12_InsertReturnsPreState ==
  [][ /\ cbfOp'.op = "insert_get_count"
        => cbfOp'.ret = CountingBloomFilter_estimate_count(cbf, cbfOp'.item)
      /\ cbfOp'.op = "insert"
        => /\ cbfOp'.ok = u32gt(CountingBloomFilter_estimate_count(cbf, cbfOp'.item), U32Zero)
           /\ cbfOp'.ok = CountingBloomFilter_contains(cbf, cbfOp'.item) ]_vars

\* C12 witness: insert_get_count returned 2 for an item two of whose
\* probes reduce to one entry, which the call has left at 3.
C12_Witness ==
  /\ cbfOp.op = "insert_get_count" /\ cbfOp.ret = u32(2) /\ ~cbfPanicked
  /\ HasRepeatedEntry(cbf, cbfOp.item)
  /\ CountingBloomFilter_estimate_count(cbf, cbfOp.item) = u32(3)

\* C19, as claimed: an insert or insert_get_count of an item none of whose
\* probed counters is at max_value() makes estimate_count of the item
\* exactly one greater than it was before the call.
C19_OneInsertCountsOnce ==
  [][ (IsInsert(cbfOp') /\ ~cbfPanicked'
         /\ \A e \in ProbedEntries(cbf, cbfOp'.item) :
              ValueVec_get(cbf.counters, e) # max_value(cbf.counters))
        => CountingBloomFilter_estimate_count(cbf', cbfOp'.item)
             = u32inc(CountingBloomFilter_estimate_count(cbf, cbfOp'.item)) ]_vars

\* a probe of insert(item) on self, from probe p on, reads a counter that is
\* at max_value()
RECURSIVE ReadsMax(_, _, _)
ReadsMax(self, hs, p) ==
  IF p > Len(hs) THEN FALSE
  ELSE LET idx == cbf_idx(self, hs[p])
           cur == ValueVec_get(self.counters, idx)
       IN  \/ cur = max_value(self.counters)
           \/ ReadsMax([self EXCEPT !.counters = ValueVec_set(self.counters, idx, u32inc(cur)).vec],
                       hs, p + 1)

\* the filter as it was before the insert beforeInsert records
FilterBeforeInsert == [cbf EXCEPT !.counters = beforeInsert.counters]

\* the insert beforeInsert records found none of the counters it probed at
\* max_value(), before it or between its probes
InsertBelowMax ==
  ~ReadsMax(FilterBeforeInsert, cbf_hashes(cbf, beforeInsert.item), 1)

\* C21: insert(x) (or insert_get_count(x)) that finds none of the counters
\* it probes at max_value(), directly followed by remove(x), ends without a
\* panic and with every counter at the value it had before the insert
C21_InsertRemoveRoundTrip ==
  (beforeInsert.removed /\ InsertBelowMax)
    => (~cbfPanicked /\ cbf.counters = beforeInsert.counters)

\* C21 witness: the round trip of an item two of whose probes reduce to the
\* same entry, that entry not at 0 before the insert and raised to
\* max_value() by it
C21_Witness ==
  /\ beforeInsert.removed /\ InsertBelowMax
  /\ cbfOp.op = "remove" /\ ~cbfPanicked
  /\ HasRepeatedEntry(cbf, beforeInsert.item)
  /\ \E e \in ProbedEntries(cbf, beforeInsert.item) :
       /\ ValueVec_get(beforeInsert.counters, e) # U32Zero
       /\ ValueVec_get(CountingBloomFilter_insert(FilterBeforeInsert, beforeInsert.item).filter.counters, e)
            = max_value(cbf.counters)

(***************************************************************************)
(* The specification of the two filters: either is built, and its calls    *)
(* are made on it                                                          *)
(***************************************************************************)

InitFilters == InitBloom \/ InitCounting

\* the calls of the filter that was built
NextFilters ==
  \/ bf # Unused /\ BFInsert
  \/ bf # Unused /\ BFClear
  \/ bf # Unused /\ BFUnion
  \/ bf # Unused /\ BFIntersect
  \/ cbf # Unused /\ CBFInsert
  \/ cbf # Unused /\ CBFInsertGetCount
  \/ cbf # Unused /\ CBFRemove
  \/ cbf # Unused /\ CBFClear

SpecFilters == InitFilters /\ [][NextFilters]_vars

(***************************************************************************)
(* Properties of clear on both filters                                     *)
(***************************************************************************)

\* C18: after clear on a Bloom filter or a counting filter (of one hash
\* function or more) no item is contained, on a counting filter every
\* estimate_count is 0, and the number of bits or entries, the bits per
\* entry and the number of hash functions are what they were
C18_ClearResets ==
  [][ /\ bfOp'.op = "clear" =>
           /\ Len(bf'.bits) = Len(bf.bits)
           /\ bf'.num_hashes = bf.num_hashes
           /\ \A x \in Items : ~BloomFilter_contains(bf', x)
      /\ cbfOp'.op = "clear" =>
           /\ cbf'.num_entries = cbf.num_entries
           /\ ValueVec_len(cbf'.counters) = ValueVec_len(cbf.counters)
           /\ cbf'.counters.bits_per_val = cbf.counters.bits_per_val
           /\ cbf'.num_hashes = cbf.num_hashes
           /\ \A x \in Items :
                /\ ~CountingBloomFilter_contains(cbf', x)
                /\ CountingBloomFilter_estimate_count(cbf', x) = U32Zero ]_vars

\* C18 witness: clear was called on a Bloom filter of three bits with a bit
\* set, and left none set
C18_Witness ==
  /\ bfOp.op = "clear"
  /\ bfOp.ret
  /\ Len(bf.bits) = 3
  /\ \A i \in DOMAIN bf.bits : ~bf.bits[i]

(***************************************************************************)
(* Properties of HashIter                                                  *)
(***************************************************************************)

\* v + c mod 2^64, for limbs v that may exceed a byte and a carry c: the
\* carry is taken from limb to limb and dropped after the last
RECURSIVE carried(_, _, _)
carried(v, c, l) ==
  IF l > Limbs THEN << >>
  ELSE <<(v[l] + c) % LimbBase>> \o carried(v, (v[l] + c) \div LimbBase, l + 1)

\* a * b mod 2^64 by rows: the limbs of b from the highest, the product so
\* far moved up a limb before a times the next limb of b is added
RECURSIVE productFrom(_, _, _, _)
productFrom(a, b, l, acc) ==
  IF l = 0 THEN acc
  ELSE productFrom(a, b, l - 1,
         carried([k \in 1 .. Limbs |-> (IF k = 1 THEN 0 ELSE acc[k - 1]) + a[k] * b[l]], 0, 1))

\* ((h1 + i) mod 2^64 * h2) mod 2^64
ProbeFormula(h1, h2, i) ==
  productFrom(carried(h1, i, 1), h2, Limbs, [k \in 1 .. Limbs |-> 0])

\* the result the n-th call of next is to have, n = 1, 2, ...
Expected(it, n) ==
  CASE n > it.count -> None
    [] n = 1        -> Some(it.h1)
    [] n = 2        -> Some(it.h2)
    [] OTHER        -> Some(ProbeFormula(it.h1, it.h2, n - 1))

\* C17: the calls of next on an iterator of count k return h1, h2 and then
\* ((h1 + i) mod 2^64 * h2) mod 2^64 for i = 2 .. k-1, k values in all, and
\* None from then on (at once when k = 0), whatever h1 and h2 are
C17_HashIterSequence ==
  \A n \in 1 .. Len(hiOut) : hiOut[n] = Expected(hi, n)

\* C17 witness: an iterator of four values from h1 = h2 = 2^64 - 1 has ended:
\* its third value is 1 * h2 (the sum wrapped) and its fourth 2^64 - 2 (the
\* product wrapped), and the calls after the fourth returned None
C17_Witness ==
  /\ hi.h1 = U64Max /\ hi.h2 = U64Max /\ hi.count = 4
  /\ Len(hiOut) = hi.count + MaxExtraNext
  /\ hiOut[3] = Some(U64Max)
  /\ hiOut[4] = Some([l \in 1 .. Limbs |-> IF l = 1 THEN LimbBase - 2 ELSE LimbBase - 1])
  /\ hiOut[5] = None /\ hiOut[6] = None

====
